---- MODULE Spec2Model ----
(***************************************************************************)
(* Location Insights (src/main.py): a Streamlit page that resolves an      *)
(* address, asks for a suggested radius, retrieves events and renders      *)
(* metrics, a map and an event table.                                      *)
(*                                                                         *)
(* Conventions of the model                                                *)
(*   - A Python value that may be None is a sequence of length <= 1:       *)
(*     None is <<>>, a value v is <<v>>.                                   *)
(*   - A Python dict is a function whose DOMAIN is the set of its keys.    *)
(*   - An evaluation that may raise yields [exc, val]: exc is "" when it   *)
(*     returned val, and the exception's name when it raised.              *)
(*   - A currency text is a sequence of one-character strings, so that     *)
(*     its digits and separators can be inspected; other texts are         *)
(*     strings.                                                            *)
(*   - A float amount of money is an integer number of tenths              *)
(*     (12345 is 1234.5); a radius is an integer number of tenths of its   *)
(*     unit, and a distance in meters an integer number of                 *)
(*     hundred-thousandths.                                                *)
(***************************************************************************)
EXTENDS Integers, Sequences, FiniteSets, TLC

VARIABLES
    \* ---- the page (one browser session at a time against one server process)
    today,                 \* datetime.datetime.now().date(), as a day number
    api_key,               \* what get_api_key() returns
    secrets,               \* st.secrets
    google_session_token,  \* st.session_state.google_session_token
    radius_cache,          \* @st.cache_data of fetch_suggested_radius
    insights_cache,        \* @st.cache_data of show_location_insights
    run,                   \* what the last script run was triggered by
    calls,                 \* the calls the last script run made, in order
    screen,                \* the elements the last script run rendered, in order
    error,                 \* the stage whose exception ended the last run, or ""
    options,               \* what lookup_address returned to the search box
    \* ---- show_events_list applied to a batch
    events,                \* the result set: [results |-> <<event, ...>>]
    dataframe,             \* what st.dataframe received: <<>> until called, then <<rows>>
    raised,                \* the exception show_events_list raised, or ""
    \* ---- calc_meters applied to an argument pair
    value, unit, meters,
    called                 \* whether the function under study has been applied

vars == <<today, api_key, secrets, google_session_token, radius_cache,
          insights_cache, run, calls, screen, error, options,
          events, dataframe, raised, value, unit, meters, called>>

page_vars == <<today, api_key, secrets, google_session_token, radius_cache,
               insights_cache, run, calls, screen, error, options>>

events_vars == <<events, dataframe, raised>>

meters_vars == <<value, unit, meters>>

(***************************************************************************)
(* Python values                                                           *)
(***************************************************************************)
None == <<>>

Some(v) == <<v>>

Ok(v) == [exc |-> "", val |-> v]

Raise(e) == [exc |-> e, val |-> None]

\* d[k] on a dict.
Subscript(d, k) == IF k \in DOMAIN d THEN Ok(d[k]) ELSE Raise("KeyError")

EmptyDict == [k \in {} |-> None]

(***************************************************************************)
(* calc_meters (src/main.py:142-150)                                       *)
(***************************************************************************)
\* value is in tenths of the unit; the result is in hundred-thousandths of a
\* meter, so that value * 0.3048 is exact.
MetersScale == 10000

calc_meters_ft_as_meters(v, u) ==
    IF u = "mi" THEN v * 1609 * MetersScale
    ELSE IF u = "ft" THEN v * MetersScale
    ELSE IF u = "km" THEN v * 1000 * MetersScale
    ELSE v * MetersScale

calc_meters(v, u) ==
    IF u = "mi" THEN v * 1609 * MetersScale
    ELSE IF u = "ft" THEN v * 3048
    ELSE IF u = "km" THEN v * 1000 * MetersScale
    ELSE v * MetersScale

(***************************************************************************)
(* f"${x:,.0f}" (src/main.py:181, 184)                                     *)
(***************************************************************************)
DigitChar == <<"0", "1", "2", "3", "4", "5", "6", "7", "8", "9">>

RoundHalfUp(tenths) ==
    IF tenths % 10 >= 5 THEN (tenths \div 10) + 1 ELSE tenths \div 10

\* Precision 0 of the "f" presentation type: the nearest integer, a tie going
\* to the even one.  A float k + 0.5 is exact, so a tie in tenths is a tie.
RoundHalfEven(tenths) ==
    LET q == tenths \div 10
        r == tenths % 10
    IN  IF r > 5 \/ (r = 5 /\ q % 2 = 1) THEN q + 1 ELSE q

RECURSIVE Digits(_)
Digits(n) ==
    IF n < 10 THEN <<DigitChar[n + 1]>>
    ELSE Digits(n \div 10) \o <<DigitChar[(n % 10) + 1]>>

Pad3(n) ==
    <<DigitChar[(n \div 100) + 1], DigitChar[((n \div 10) % 10) + 1], DigitChar[(n % 10) + 1]>>

\* The "," option: groups of three digits from the right.
RECURSIVE GroupThousands(_)
GroupThousands(n) ==
    IF n < 1000 THEN Digits(n)
    ELSE GroupThousands(n \div 1000) \o <<",">> \o Pad3(n % 1000)

format_currency(tenths) == <<"$">> \o GroupThousands(RoundHalfEven(tenths))

(***************************************************************************)
(* Event timestamps (src/main.py:167-177).  The timestamps of the model    *)
(* lie in June 2024 and are [day, hour, minute] in UTC; a zone is its      *)
(* offset from UTC in that month.                                          *)
(***************************************************************************)
UtcOffsetHours(tz) ==
    CASE tz = "America/New_York" -> -4
      [] tz = "Asia/Tokyo" -> 9
      [] OTHER -> 0

\* datetime.astimezone(pytz.timezone(tz))
astimezone(ts, tz) ==
    LET h == ts.hour + UtcOffsetHours(tz)
    IN  IF h < 0 THEN [day |-> ts.day - 1, hour |-> h + 24, minute |-> ts.minute]
        ELSE IF h >= 24 THEN [day |-> ts.day + 1, hour |-> h - 24, minute |-> ts.minute]
        ELSE [day |-> ts.day, hour |-> h, minute |-> ts.minute]

Digit2(n) == DigitChar[(n \div 10) + 1] \o DigitChar[(n % 10) + 1]

\* datetime.strftime("%d-%b-%Y %H:%M")
strftime(ts) ==
    Digit2(ts.day) \o "-Jun-2024 " \o Digit2(ts.hour) \o ":" \o Digit2(ts.minute)

\* parse_date(event[key]).astimezone(pytz.timezone(event["timezone"])).strftime(...)
local_time(event, key) ==
    IF key \notin DOMAIN event \/ "timezone" \notin DOMAIN event THEN Raise("KeyError")
    ELSE IF event[key] = None THEN Raise("TypeError")
    ELSE Ok(strftime(astimezone(event[key][1], event.timezone)))

(***************************************************************************)
(* The row of one event (src/main.py:160-188).  Columns are named after    *)
(* the table's headings.  The Placekey column is kept as a nullable value, *)
(* because the code can put None there.                                    *)
(***************************************************************************)
\* next(filter(lambda entity: entity["type"] == "venue", event["entities"]), None)
find_venue(event) ==
    IF "entities" \notin DOMAIN event THEN Raise("KeyError")
    ELSE LET es == event.entities
             hits == {i \in 1..Len(es) : es[i].type = "venue"}
         IN  IF hits = {} THEN Ok(None)
             ELSE Ok(Some(es[CHOOSE i \in hits : \A j \in hits : i <= j]))

row_title_get(event) ==
    IF "title" \in DOMAIN event THEN Ok(event.title) ELSE Ok("")

\* event["title"]
row_title(event) == Subscript(event, "title")

\* event["category"]
row_category(event) == Subscript(event, "category")

\* event["phq_attendance"] if event["phq_attendance"] else 0
row_attendance(event) ==
    IF "phq_attendance" \notin DOMAIN event THEN Raise("KeyError")
    ELSE LET a == event.phq_attendance
         IN  IF a # None /\ a[1] # 0 THEN Ok(a[1]) ELSE Ok(0)

\* ... if "predicted_end" in event and event["predicted_end"] is not None else ""
row_predicted_end(event) ==
    IF "predicted_end" \in DOMAIN event /\ event.predicted_end # None
    THEN local_time(event, "predicted_end")
    ELSE Ok("")

\* venue["name"] if venue else "" ; venue["formatted_address"] if venue else ""
row_venue(venue, key) == IF venue # None THEN Subscript(venue[1], key) ELSE Ok("")

\* event["geo"]["placekey"] if "geo" in event and "placekey" in event["geo"] else ""
row_placekey(event) ==
    IF "geo" \in DOMAIN event
    THEN IF event.geo = None THEN Raise("TypeError")
         ELSE IF "placekey" \in DOMAIN event.geo[1] THEN Ok(event.geo[1].placekey)
         ELSE Ok(Some(""))
    ELSE Ok(Some(""))

\* f"${...:,.0f}" if "predicted_event_spend" in event
\*                   and event["predicted_event_spend"] is not None else ""
row_spend(event) ==
    IF "predicted_event_spend" \in DOMAIN event /\ event.predicted_event_spend # None
    THEN Ok(format_currency(event.predicted_event_spend[1]))
    ELSE Ok(<<>>)

\* f"${...['hospitality']:,.0f}" if "predicted_event_spend_industries" in event
\*     and event["predicted_event_spend_industries"]["hospitality"] is not None else ""
row_hospitality(event) ==
    IF "predicted_event_spend_industries" \in DOMAIN event
    THEN LET ind == event.predicted_event_spend_industries
         IN  IF ind = None THEN Raise("TypeError")
             ELSE IF "hospitality" \notin DOMAIN ind[1] THEN Raise("KeyError")
             ELSE IF ind[1].hospitality # None
                  THEN Ok(format_currency(ind[1].hospitality[1]))
                  ELSE Ok(<<>>)
    ELSE Ok(<<>>)

\* The exception of the first evaluation that raised, in evaluation order.
FirstRaised(rs) ==
    LET bad == {i \in 1..Len(rs) : rs[i].exc # ""}
    IN  IF bad = {} THEN "" ELSE rs[CHOOSE i \in bad : \A j \in bad : i <= j].exc

event_row(event) ==
    LET venue == find_venue(event)
        v == IF venue.exc = "" THEN venue.val ELSE None
        title == row_title(event)
        attendance == row_attendance(event)
        category == row_category(event)
        start == local_time(event, "start")
        end == local_time(event, "end")
        predicted_end == row_predicted_end(event)
        venue_name == row_venue(v, "name")
        venue_address == row_venue(v, "formatted_address")
        placekey == row_placekey(event)
        spend == row_spend(event)
        hospitality == row_hospitality(event)
        exc == FirstRaised(<<venue, title, attendance, category, start, end,
                             predicted_end, venue_name, venue_address, placekey,
                             spend, hospitality>>)
    IN  IF exc # "" THEN Raise(exc)
        ELSE Ok([Event_Title |-> title.val,
                 PHQ_Attendance |-> attendance.val,
                 Category |-> category.val,
                 Start_Date |-> start.val,
                 End_Date |-> end.val,
                 Predicted_End_Date |-> predicted_end.val,
                 Venue_Name |-> venue_name.val,
                 Venue_Address |-> venue_address.val,
                 Placekey |-> placekey.val,
                 Predicted_Event_Spend |-> spend.val,
                 Predicted_Event_Spend_Hospitality |-> hospitality.val])

append_row_front(results, row) == <<row>> \o results

\* results.append(row)
append_row(results, row) == Append(results, row)

\* The for loop over events["results"]: an exception leaves it at once.
RECURSIVE rows_from(_, _, _)
rows_from(evs, i, results) ==
    IF i > Len(evs) THEN Ok(results)
    ELSE LET r == event_row(evs[i])
         IN  IF r.exc # "" THEN Raise(r.exc)
             ELSE rows_from(evs, i + 1, append_row(results, r.val))

\* What the call leaves behind: the exception it raised, or the rows that
\* st.dataframe(pd.DataFrame(results)) received.
show_events_list(evs) ==
    LET r == rows_from(evs.results, 1, <<>>)
    IN  IF r.exc # "" THEN [raised |-> r.exc, dataframe |-> None]
        ELSE [raised |-> "", dataframe |-> Some(r.val)]

(***************************************************************************)
(* Event records the provider can return.  A key the record lacks is       *)
(* outside its DOMAIN; a key it carries with null holds None.              *)
(***************************************************************************)
Field(key, vals) == {key :> v : v \in vals}

Optional(key, vals) == {EmptyDict} \cup Field(key, vals)

TStart == [day |-> 1, hour |-> 20, minute |-> 0]

TEnd == [day |-> 1, hour |-> 23, minute |-> 30]

TPredictedEnd == [day |-> 2, hour |-> 1, minute |-> 15]

VenueEntities ==
    <<[type |-> "speaker", name |-> "Dr. Who", formatted_address |-> ""],
      [type |-> "venue", name |-> "Arena", formatted_address |-> "1 Main St"],
      [type |-> "venue", name |-> "Annex", formatted_address |-> "2 Main St"]>>

\* The keys every record of the model carries besides title and category.
Cores ==
    {[start |-> Some(TStart), end |-> Some(TEnd),
      timezone |-> "America/New_York", entities |-> VenueEntities],
     [start |-> Some(TStart), end |-> Some(TEnd),
      timezone |-> "Asia/Tokyo", entities |-> <<>>]}

\* Every combination of the nullable and optional keys, one record at a time.
RowEvents ==
    {core @@ t @@ c @@ a @@ pe @@ g @@ sp @@ ind :
        core \in Cores,
        t \in Optional("title", {"Jazz Night"}),
        c \in Optional("category", {"concerts"}),
        a \in Optional("phq_attendance", {None, Some(0), Some(1500)}),
        pe \in Optional("predicted_end", {None, Some(TPredictedEnd)}),
        g \in Optional("geo", {None, Some(EmptyDict), Some([placekey |-> None]),
                               Some([placekey |-> Some("zzw-222@5vg-7gq")])}),
        sp \in Optional("predicted_event_spend", {None, Some(12345)}),
        ind \in Optional("predicted_event_spend_industries",
                         {None, Some(EmptyDict), Some([hospitality |-> None]),
                          Some([hospitality |-> Some(9995)])})}

CoreNY == [start |-> Some(TStart), end |-> Some(TEnd),
           timezone |-> "America/New_York", entities |-> VenueEntities]

FullEvent(title) ==
    CoreNY @@ [title |-> title, category |-> "concerts",
               phq_attendance |-> Some(1500),
               predicted_end |-> Some(TPredictedEnd),
               geo |-> Some([placekey |-> Some("zzw-222@5vg-7gq")]),
               predicted_event_spend |-> Some(12345),
               predicted_event_spend_industries |-> Some([hospitality |-> Some(9995)])]

SparseEvent(title) ==
    CoreNY @@ [title |-> title, category |-> "sports", phq_attendance |-> None]

BatchTitles == {"A", "B"}

\* Record shapes for batches: complete, bare, and lacking one key.
BatchEvents ==
    {FullEvent(t) : t \in BatchTitles}
        \cup {SparseEvent(t) : t \in BatchTitles}
        \cup {CoreNY @@ [category |-> "sports", phq_attendance |-> None]}
        \cup {CoreNY @@ [title |-> t, phq_attendance |-> None] : t \in BatchTitles}
        \cup {CoreNY @@ [title |-> "A", category |-> "sports"]}

MaxBatch == 2

Batches == UNION {[1..n -> BatchEvents] : n \in 0..MaxBatch}

MaxTenths == 12400

LargeAmounts == {9999994, 9999995, 10000005, 12345678, 1234567895}

Amounts == 0..MaxTenths \cup LargeAmounts

\* The places an amount can sit in, and the record that carries it there.
SpendShapes == {"spend", "spend_null", "hospitality", "hospitality_null", "both"}

SpendEvent(shape, x) ==
    CASE shape = "spend" ->
            SparseEvent("A") @@ [predicted_event_spend |-> Some(x)]
      [] shape = "spend_null" ->
            SparseEvent("A") @@ [predicted_event_spend |-> None]
      [] shape = "hospitality" ->
            SparseEvent("A")
                @@ [predicted_event_spend_industries |-> Some([hospitality |-> Some(x)])]
      [] shape = "hospitality_null" ->
            SparseEvent("A")
                @@ [predicted_event_spend_industries |-> Some([hospitality |-> None])]
      [] OTHER ->
            SparseEvent("A")
                @@ [predicted_event_spend |-> Some(x),
                    predicted_event_spend_industries |-> Some([hospitality |-> Some(x + 10)])]

(***************************************************************************)
(* The page before its first run, and the functions before they are        *)
(* applied.                                                                *)
(***************************************************************************)
NoToken == ""

PageAtRest ==
    /\ today = 0
    /\ api_key = None
    /\ secrets = [title |-> "Location Insights"]
    /\ google_session_token = NoToken
    /\ radius_cache = EmptyDict
    /\ insights_cache = EmptyDict
    /\ run = "none"
    /\ calls = <<>>
    /\ screen = <<>>
    /\ error = ""
    /\ options = <<>>

EventsAtRest ==
    /\ events = [results |-> <<>>]
    /\ dataframe = None
    /\ raised = ""

MetersAtRest ==
    /\ value = 0
    /\ unit = "m"
    /\ meters = None

(***************************************************************************)
(* show_events_list applied to one result set                              *)
(***************************************************************************)
ShowEventsList ==
    /\ ~called
    /\ LET r == show_events_list(events)
       IN  /\ dataframe' = r.dataframe
           /\ raised' = r.raised
    /\ called' = TRUE
    /\ UNCHANGED <<events, page_vars, meters_vars>>

NextEvents == ShowEventsList

InitBatch ==
    /\ PageAtRest /\ MetersAtRest
    /\ events \in {[results |-> b] : b \in Batches}
    /\ dataframe = None
    /\ raised = ""
    /\ called = FALSE

InitRow ==
    /\ PageAtRest /\ MetersAtRest
    /\ events \in {[results |-> <<e>>] : e \in RowEvents}
    /\ dataframe = None
    /\ raised = ""
    /\ called = FALSE

InitSpend ==
    /\ PageAtRest /\ MetersAtRest
    /\ \E x \in Amounts, shape \in SpendShapes :
            events = [results |-> <<SpendEvent(shape, x)>>]
    /\ dataframe = None
    /\ raised = ""
    /\ called = FALSE

SpecBatch == InitBatch /\ [][NextEvents]_vars

SpecRow == InitRow /\ [][NextEvents]_vars

SpecSpend == InitSpend /\ [][NextEvents]_vars

(***************************************************************************)
(* calc_meters applied to one argument pair                                *)
(***************************************************************************)
MaxValue == 60

Units == {"mi", "ft", "km", "m", "yd", ""}

CalcMeters ==
    /\ ~called
    /\ meters' = Some(calc_meters(value, unit))
    /\ called' = TRUE
    /\ UNCHANGED <<value, unit, page_vars, events_vars>>

NextMeters == CalcMeters

InitMeters ==
    /\ PageAtRest /\ EventsAtRest
    /\ value \in 0..MaxValue
    /\ unit \in Units
    /\ meters = None
    /\ called = FALSE

SpecMeters == InitMeters /\ [][NextMeters]_vars

(***************************************************************************)
(* The page: what the providers can answer                                 *)
(***************************************************************************)
MaxDay == 1

\* uuid.uuid4().hex draws a value; the model draws it from this set.
Tokens == {"3f2a", "9c1b"}

Places == {"ChIJ-a", "ChIJ-b"}

Texts == {"", "1 Main"}

\* get_place_details(...)["result"], flattened.
PlaceDetails(place_id) ==
    IF place_id = "ChIJ-a" THEN [name |-> "Arena", lat |-> 40, lng |-> -74]
    ELSE [name |-> "Harbour", lat |-> 35, lng |-> 139]

AutocompleteResults ==
    {<<>>,
     <<[description |-> "1 Main St, Anytown", place_id |-> "ChIJ-a"],
       [description |-> "1 Main Rd, Othertown", place_id |-> "ChIJ-b"]>>}

\* phq.radius.search(...): radius in tenths of its unit.
RadiusResults ==
    {[radius |-> 25, radius_unit |-> "mi"], [radius |-> 40, radius_unit |-> "km"]}

\* fetch_events(...): a well-formed result set, and one whose second record
\* lacks its title.
EventResults ==
    {[results |-> <<FullEvent("A"), SparseEvent("B")>>],
     [results |-> <<SparseEvent("A"),
                    CoreNY @@ [category |-> "sports", phq_attendance |-> None]>>]}

\* A provider's answer: None when the call raised.
Answers(S) == {None} \cup {Some(x) : x \in S}

ATTENDED_CATEGORIES == "ATTENDED_CATEGORIES"

(***************************************************************************)
(* lookup_address (src/main.py:33-45)                                      *)
(***************************************************************************)
lookup_address(text, token, answer) ==
    IF text # ""
    THEN LET call == [fn |-> "places_autocomplete", text |-> text,
                      session_token |-> token]
         IN  IF answer = None
             THEN [error |-> "places_autocomplete", calls |-> <<call>>, options |-> <<>>]
             ELSE [error |-> "", calls |-> <<call>>,
                   options |-> [i \in 1..Len(answer[1]) |->
                                   <<answer[1][i].description, answer[1][i].place_id>>]]
    ELSE [error |-> "", calls |-> <<>>, options |-> <<>>]

(***************************************************************************)
(* fetch_suggested_radius (src/main.py:134-139), memoized by its arguments *)
(***************************************************************************)
fetch_suggested_radius(lat, lon, radius_unit, industry, answer) ==
    LET key == <<lat, lon, radius_unit, industry>>
        search == [fn |-> "radius.search", lat |-> lat, lon |-> lon,
                   radius_unit |-> radius_unit, industry |-> industry]
        returned(r) == [fn |-> "fetch_suggested_radius", radius |-> r[1],
                        radius_unit |-> r[2]]
    IN  IF key \in DOMAIN radius_cache
        THEN [exc |-> "", val |-> radius_cache[key],
              calls |-> <<returned(radius_cache[key])>>, cache |-> radius_cache]
        ELSE IF answer = None
        THEN [exc |-> "Exception", val |-> None, calls |-> <<search>>,
              cache |-> radius_cache]
        ELSE LET r == <<answer[1].radius, answer[1].radius_unit>>
             IN  [exc |-> "", val |-> r, calls |-> <<search, returned(r)>>,
                  cache |-> (key :> r) @@ radius_cache]

(***************************************************************************)
(* show_location_insights (src/main.py:74-131), memoized by place_id: a    *)
(* hit replays the elements the recorded call rendered and runs no line of *)
(* the body.  The body is cut where a provider answers; each part hands    *)
(* the calls made and the elements rendered so far to the next.            *)
(***************************************************************************)
\* What a script run leaves: the stage that raised (or ""), the calls made,
\* the elements rendered, the search box's options and the two memo tables.
Outcome(stage, made, rendered, icache, rcache) ==
    [error |-> stage, calls |-> made, elements |-> rendered, options |-> <<>>,
     insights_cache |-> icache, radius_cache |-> rcache]

fetch_events_args_requested_unit(lat, lon, radius, radius_unit, date_from, date_to, tz, categories) ==
    [fn |-> "fetch_events", lat |-> lat, lon |-> lon, radius |-> radius,
     date_from |-> date_from, date_to |-> date_to, tz |-> tz,
     categories |-> categories, radius_unit |-> "mi"]

\* The arguments of the fetch_events call (lines 112-121).
fetch_events_args(lat, lon, radius, radius_unit, date_from, date_to, tz, categories) ==
    [fn |-> "fetch_events", lat |-> lat, lon |-> lon, radius |-> radius,
     date_from |-> date_from, date_to |-> date_to, tz |-> tz,
     categories |-> categories, radius_unit |-> radius_unit]

\* The arguments of show_metrics (lines 100-109).
show_metrics_args(lat, lon, radius, radius_unit, date_from, date_to, tz) ==
    [sink |-> "metrics", lat |-> lat, lon |-> lon, radius |-> radius,
     radius_unit |-> radius_unit, date_from |-> date_from, date_to |-> date_to,
     suggested_radius |-> [radius |-> radius, radius_unit |-> radius_unit],
     tz |-> tz]

\* The arguments of show_map (lines 124-129).
show_map_args(lat, lon, radius, radius_unit, evs) ==
    [sink |-> "map", lat |-> lat, lon |-> lon,
     radius_meters |-> calc_meters(radius, radius_unit), events |-> evs]

\* The call returned: @st.cache_data records what it rendered.
insights_memoized(place_id, made, rendered, rcache) ==
    Outcome("", made, rendered, (place_id :> rendered) @@ insights_cache, rcache)

\* Line 131: show_events_list(events), shown being what it left.
insights_table(place_id, made, rendered, rcache, shown) ==
    IF shown.raised # ""
    THEN Outcome("show_events_list", made, rendered, insights_cache, rcache)
    ELSE insights_memoized(place_id, made,
                           Append(rendered, [sink |-> "table",
                                             rows |-> shown.dataframe[1]]),
                           rcache)

\* Lines 112-131, events_answer being what fetch_events answered.
insights_events(place_id, made, rendered, rcache, lat, lon, radius, radius_unit, events_answer) ==
    IF events_answer = None
    THEN Outcome("fetch_events", made, rendered, insights_cache, rcache)
    ELSE insights_table(place_id, made,
                        Append(rendered, show_map_args(lat, lon, radius, radius_unit,
                                                       events_answer[1])),
                        rcache, show_events_list(events_answer[1]))

\* Lines 93-121, r being what fetch_suggested_radius left.
insights_radius(place_id, made, name, lat, lon, tz, date_from, date_to, categories, r, events_answer) ==
    IF r.exc # ""
    THEN Outcome("fetch_suggested_radius", made \o r.calls, <<>>, insights_cache,
                 radius_cache)
    ELSE insights_events(place_id,
                         Append(made \o r.calls,
                                fetch_events_args(lat, lon, r.val[1], r.val[2],
                                                  date_from, date_to, tz, categories)),
                         <<[sink |-> "header", name |-> name],
                           show_metrics_args(lat, lon, r.val[1], r.val[2], date_from,
                                             date_to, tz)>>,
                         r.cache, lat, lon, r.val[1], r.val[2], events_answer)

\* Lines 82-93, the place being resolved and date_from being today.
insights_place(place_id, made, name, lat, lon, date_from, radius_answer, events_answer) ==
    insights_radius(place_id, made, name, lat, lon, "UTC", date_from, date_from + 90,
                    ATTENDED_CATEGORIES,
                    fetch_suggested_radius(
                        lat, lon, "mi",
                        IF "suggested_radius_industry" \in DOMAIN secrets
                        THEN secrets.suggested_radius_industry
                        ELSE "accommodation",
                        radius_answer),
                    events_answer)

get_place_details_call(place_id, token) ==
    [fn |-> "get_place_details", place_id |-> place_id, session_token |-> token]

show_location_insights(place_id, token, details, radius_answer, events_answer) ==
    IF place_id \in DOMAIN insights_cache
    THEN Outcome("", <<>>, insights_cache[place_id], insights_cache, radius_cache)
    ELSE IF details = None
    THEN Outcome("get_place_details", <<get_place_details_call(place_id, token)>>,
                 <<>>, insights_cache, radius_cache)
    ELSE insights_place(place_id, <<get_place_details_call(place_id, token)>>,
                        details[1].name, details[1].lat, details[1].lng, today,
                        radius_answer, events_answer)

(***************************************************************************)
(* show_address_lookup (src/main.py:48-71).  The search box either idles,  *)
(* hands the typed text to lookup_address, or returns the chosen place_id. *)
(***************************************************************************)
\* st.markdown and st.title come before whatever else the run renders.
with_intro(out) ==
    [out EXCEPT !.elements = <<[sink |-> "intro", title |-> secrets.title]>> \o @]

\* st_searchbox(lookup_address, ...) on a keystroke, found being what
\* lookup_address left; the box returns None.
searchbox_searched(found) ==
    [error |-> found.error, calls |-> found.calls, elements |-> <<>>,
     options |-> found.options, insights_cache |-> insights_cache,
     radius_cache |-> radius_cache]

show_address_lookup(trigger, token, text, place_id, autocomplete, details, radius_answer, events_answer) ==
    IF trigger = "keystroke"
    THEN with_intro(searchbox_searched(lookup_address(text, token, autocomplete)))
    ELSE IF trigger = "select"
    THEN with_intro(show_location_insights(place_id, token, details, radius_answer,
                                           events_answer))
    ELSE with_intro(Outcome("", <<>>, <<>>, insights_cache, radius_cache))

(***************************************************************************)
(* main (src/main.py:22-30, 196-197): one run of the script                *)
(***************************************************************************)
has_credential_unchecked(key) == TRUE

\* get_api_key() is not None
has_credential(key) == key # None

GeocodingCalls(made) ==
    {i \in 1..Len(made) : made[i].fn \in {"places_autocomplete", "get_place_details"}}

main(trigger, token, text, place_id, autocomplete, details, radius_answer, events_answer) ==
    /\ google_session_token' = token
    /\ \E out \in {IF has_credential(api_key)
                  THEN show_address_lookup(trigger, token, text, place_id,
                                           autocomplete, details, radius_answer,
                                           events_answer)
                  ELSE [error |-> "", calls |-> <<>>,
                        elements |-> <<[sink |-> "warning"]>>, options |-> <<>>,
                        insights_cache |-> insights_cache,
                        radius_cache |-> radius_cache]} :
           /\ error' = out.error
           /\ calls' = out.calls
           /\ screen' = out.elements
           /\ options' = out.options
           /\ insights_cache' = out.insights_cache
           /\ radius_cache' = out.radius_cache
    /\ run' = trigger
    /\ UNCHANGED <<today, api_key, secrets, events_vars, meters_vars, called>>

\* The browser opens the page: a new session, and the script's first run.
PageVisit ==
    \E token \in Tokens :
        main("visit", token, "", "ChIJ-a", None, None, None, None)

\* The user types in the search box: the script runs again.
Keystroke ==
    /\ run # "none"
    /\ \E token \in Tokens, text \in Texts, autocomplete \in Answers(AutocompleteResults) :
          main("keystroke", token, text, "ChIJ-a", autocomplete, None, None, None)

\* The user picks a suggestion: the script runs again.  The providers are
\* asked only when the place is not memoized.
Select ==
    /\ run # "none"
    /\ \E token \in Tokens, place_id \in Places :
          IF has_credential(api_key) /\ place_id \notin DOMAIN insights_cache
          THEN \E found \in BOOLEAN, radius_answer \in Answers(RadiusResults),
                  events_answer \in Answers(EventResults) :
                  main("select", token, "", place_id, None,
                       IF found THEN Some(PlaceDetails(place_id)) ELSE None,
                       radius_answer, events_answer)
          ELSE main("select", token, "", place_id, None, None, None, None)

\* Midnight passes.
AdvanceDay ==
    /\ today < MaxDay
    /\ today' = today + 1
    /\ UNCHANGED <<api_key, secrets, google_session_token, radius_cache,
                   insights_cache, run, calls, screen, error, options,
                   events_vars, meters_vars, called>>

Next == PageVisit \/ Keystroke \/ Select \/ AdvanceDay

Init ==
    /\ today = 0
    /\ api_key \in {None, Some("phq-token")}
    /\ secrets \in {[title |-> "Location Insights"],
                    [title |-> "Location Insights",
                     suggested_radius_industry |-> "restaurants"]}
    /\ google_session_token = NoToken
    /\ radius_cache = EmptyDict
    /\ insights_cache = EmptyDict
    /\ run = "none"
    /\ calls = <<>>
    /\ screen = <<>>
    /\ error = ""
    /\ options = <<>>
    /\ EventsAtRest /\ MetersAtRest
    /\ called = FALSE

Spec == Init /\ [][Next]_vars

(***************************************************************************)
(* Properties of the page                                                  *)
(***************************************************************************)
Elements(rendered, sink) == {i \in 1..Len(rendered) : rendered[i].sink = sink}

Calls(made, fn) == {i \in 1..Len(made) : made[i].fn = fn}

ResultSinks == {"header", "metrics", "map", "table"}

\* C3: when the radius provider or the event provider fails during a render
\* cycle, none of the result sinks (header and metrics panel, map, event
\* table) has been rendered in that cycle.
NoPartialResults ==
    error \in {"fetch_suggested_radius", "fetch_events"} =>
        \A i \in 1..Len(screen) : screen[i].sink \notin ResultSinks

\* C4: every lookup of a place (a step in which the user selects one and the
\* insights come up) shows metrics for the window from the date of that
\* lookup to 90 days later, in UTC, and retrieves events for no other window.
WindowRecomputed ==
    [][(run' = "select" /\ today' = today /\ error' = "") =>
           /\ \A i \in Elements(screen', "metrics") :
                 /\ screen'[i].date_from = today'
                 /\ screen'[i].date_to = today' + 90
                 /\ screen'[i].tz = "UTC"
           /\ \A i \in Calls(calls', "fetch_events") :
                 /\ calls'[i].date_from = today'
                 /\ calls'[i].date_to = today' + 90
                 /\ calls'[i].tz = "UTC"]_vars

\* C5: within one visit the geocoding calls of consecutive script runs
\* (autocomplete lookups and the place resolution) carry the same session
\* token.
SessionTokenPerVisit ==
    [][run' # "visit" =>
           \A i \in GeocodingCalls(calls), j \in GeocodingCalls(calls') :
               calls[i].session_token = calls'[j].session_token]_vars

\* C9: with no credential, a run shows the warning and nothing else, and makes
\* no autocomplete, place, radius or event call.
NoCredentialNoCalls ==
    api_key = None =>
        /\ calls = <<>>
        /\ options = <<>>
        /\ radius_cache = EmptyDict
        /\ insights_cache = EmptyDict
        /\ run # "none" => screen = <<[sink |-> "warning"]>>

NoCredentialNoCallsWitness ==
    /\ api_key = None
    /\ run = "select"
    /\ google_session_token # NoToken
    /\ screen = <<[sink |-> "warning"]>>
    /\ calls = <<>>

\* C10: in an execution of show_location_insights, fetch_events is called
\* after fetch_suggested_radius has returned, which it does once, and with the
\* radius and unit it returned; the metrics panel receives the same pair and
\* the map receives calc_meters of it.
RadiusFeedsEvents ==
    \A i \in Calls(calls, "fetch_events") :
        /\ \E j \in Calls(calls, "fetch_suggested_radius") :
              /\ j < i
              /\ Calls(calls, "fetch_suggested_radius") = {j}
              /\ calls[i].radius = calls[j].radius
              /\ calls[i].radius_unit = calls[j].radius_unit
        /\ Elements(screen, "metrics") # {}
        /\ \A k \in Elements(screen, "metrics") :
              /\ screen[k].radius = calls[i].radius
              /\ screen[k].radius_unit = calls[i].radius_unit
              /\ screen[k].suggested_radius =
                    [radius |-> calls[i].radius, radius_unit |-> calls[i].radius_unit]
        /\ \A k \in Elements(screen, "map") :
              screen[k].radius_meters = calc_meters(calls[i].radius, calls[i].radius_unit)

RadiusFeedsEventsWitness ==
    /\ run = "select"
    /\ error = ""
    /\ \E i \in Calls(calls, "fetch_events") :
          /\ calls[i].radius = 40
          /\ calls[i].radius_unit = "km"
    /\ \E k \in Elements(screen, "map") : screen[k].radius_meters = 400000000
    /\ Elements(screen, "table") # {}

(***************************************************************************)
(* Properties of show_events_list                                          *)
(***************************************************************************)
Results == events.results

Rows == dataframe[1]

Has(e, key) == key \in DOMAIN e

\* Absent (no such key) or null.
Missing(e, key) == ~Has(e, key) \/ e[key] = None

RequiredKeys == {"title", "category", "start", "end", "timezone", "entities"}

LacksRequired(e) == ~Has(e, "title") \/ ~Has(e, "category")

\* The record shape of the data model: the required keys, phq_attendance
\* nullable, and each nested object either absent or an object (the
\* industries object carrying its hospitality key).
WellFormed(e) ==
    /\ RequiredKeys \subseteq DOMAIN e
    /\ Has(e, "phq_attendance")
    /\ Has(e, "geo") => e.geo # None
    /\ Has(e, "predicted_event_spend_industries") =>
          /\ e.predicted_event_spend_industries # None
          /\ Has(e.predicted_event_spend_industries[1], "hospitality")

\* C1: for a record that has title, category, start, end, timezone and
\* entities, with any of the optional fields absent or null, formatting
\* succeeds and every such field comes out as its placeholder (0 for the
\* attendance, the empty text for the others).
OptionalFieldsTotal ==
    (called /\ RequiredKeys \subseteq DOMAIN Results[1]) =>
        /\ raised = ""
        /\ dataframe # None
        /\ LET e == Results[1]
               row == Rows[1]
               ind == "predicted_event_spend_industries"
           IN  /\ Missing(e, "phq_attendance") => row.PHQ_Attendance = 0
               /\ Missing(e, "predicted_end") => row.Predicted_End_Date = ""
               /\ (Missing(e, "geo") \/ Missing(e.geo[1], "placekey")) =>
                      row.Placekey = Some("")
               /\ Missing(e, "predicted_event_spend") =>
                      row.Predicted_Event_Spend = <<>>
               /\ (Missing(e, ind) \/ Missing(e[ind][1], "hospitality")) =>
                      row.Predicted_Event_Spend_Hospitality = <<>>

\* C2: a batch holding a record without title or category makes the whole
\* call fail, and the table sink receives nothing, not even the rows of the
\* records before the bad one.
MissingRequiredIsFatal ==
    (called /\ \E i \in 1..Len(Results) : LacksRequired(Results[i])) =>
        /\ raised = "KeyError"
        /\ dataframe = None

MissingRequiredIsFatalWitness ==
    /\ called
    /\ Len(Results) = 2
    /\ WellFormed(Results[1])
    /\ ~Has(Results[2], "title")
    /\ raised = "KeyError"
    /\ dataframe = None

\* C8: a result set of well-formed records yields one row per record, the
\* i-th row being the row of the i-th record.
RowsFollowEvents ==
    (called /\ \A i \in 1..Len(Results) : WellFormed(Results[i])) =>
        /\ raised = ""
        /\ dataframe # None
        /\ Len(Rows) = Len(Results)
        /\ \A i \in 1..Len(Results) :
              /\ Rows[i].Event_Title = Results[i].title
              /\ Rows[i].Category = Results[i].category
              /\ Rows[i] = event_row(Results[i]).val

RowsFollowEventsWitness ==
    /\ called
    /\ Len(Results) = 2
    /\ WellFormed(Results[1]) /\ WellFormed(Results[2])
    /\ Results[1].title = "B" /\ Results[2].title = "A"
    /\ Results[1] = FullEvent("B")
    /\ dataframe # None
    /\ Len(Rows) = 2
    /\ Rows[1].Event_Title = "B" /\ Rows[2].Event_Title = "A"

(***************************************************************************)
(* Properties of the currency text                                         *)
(***************************************************************************)
IsDigit(c) == \E d \in 1..10 : DigitChar[d] = c

DigitValue(c) == (CHOOSE d \in 1..10 : DigitChar[d] = c) - 1

\* The number a text of digits and commas spells, the commas skipped.
RECURSIVE ParseGrouped(_)
ParseGrouped(text) ==
    IF text = <<>> THEN 0
    ELSE LET front == SubSeq(text, 1, Len(text) - 1)
             last == text[Len(text)]
         IN  IF last = "," THEN ParseGrouped(front)
             ELSE ParseGrouped(front) * 10 + DigitValue(last)

\* Digits only, but for a comma before every group of three digits counted
\* from the right; no leading zero, no decimal point.
WholeDollars(text) ==
    /\ Len(text) >= 2
    /\ text[1] = "$"
    /\ LET body == Tail(text)
           n == Len(body)
       IN  /\ \A i \in 1..n :
                 IF (n - i + 1) % 4 = 0 THEN body[i] = "," ELSE IsDigit(body[i])
           /\ n > 1 => body[1] # "0"

\* The amounts (in tenths) the record carries and the texts they came out as.
Rendered ==
    LET e == Results[1]
        ind == "predicted_event_spend_industries"
    IN  (IF Has(e, "predicted_event_spend")
         THEN {<<e.predicted_event_spend, Rows[1].Predicted_Event_Spend>>}
         ELSE {<<None, Rows[1].Predicted_Event_Spend>>})
          \cup
        (IF Has(e, ind)
         THEN {<<e[ind][1].hospitality, Rows[1].Predicted_Event_Spend_Hospitality>>}
         ELSE {<<None, Rows[1].Predicted_Event_Spend_Hospitality>>})

\* C6 as stated: the text spells the amount rounded to the nearest integer,
\* a half rounded up (1234.5 gives "$1,235"), comma-grouped and without
\* decimals; null gives the empty text.
CurrencyRoundsHalfUp ==
    called =>
        /\ raised = ""
        /\ \A p \in Rendered :
              IF p[1] = None THEN p[2] = <<>>
              ELSE /\ WholeDollars(p[2])
                   /\ ParseGrouped(Tail(p[2])) = (p[1][1] + 5) \div 10

\* C6 as amended: the text spells the amount rounded to the nearest integer,
\* a half rounded to the even neighbour (1234.5 gives "$1,234", 1235.5 gives
\* "$1,236"), comma-grouped and without decimals; null gives the empty text.
CurrencyRoundsHalfEven ==
    called =>
        /\ raised = ""
        /\ \A p \in Rendered :
              IF p[1] = None THEN p[2] = <<>>
              ELSE /\ WholeDollars(p[2])
                   /\ LET n == ParseGrouped(Tail(p[2]))
                          d == 10 * n - p[1][1]
                      IN  /\ d \in -5..5
                          /\ d \in {-5, 5} => n % 2 = 0

CurrencyRoundsHalfEvenWitness ==
    /\ called
    /\ Results[1] = SpendEvent("both", 12345)
    /\ Rows[1].Predicted_Event_Spend = <<"$", "1", ",", "2", "3", "4">>
    /\ Rows[1].Predicted_Event_Spend_Hospitality = <<"$", "1", ",", "2", "3", "6">>

(***************************************************************************)
(* Properties of calc_meters                                               *)
(***************************************************************************)
\* Meters per unit, in ten-thousandths.
UnitFactor == [mi |-> 16090000, ft |-> 3048, km |-> 10000000]

\* C7: value * 1609 for "mi", value * 0.3048 for "ft", value * 1000 for "km",
\* and the value itself for any other unit; nothing is rounded.
CalcMetersTable ==
    called =>
        meters = Some(IF unit \in DOMAIN UnitFactor
                      THEN value * UnitFactor[unit]
                      ELSE value * 10000)

CalcMetersTableWitness ==
    /\ called
    /\ unit = "ft"
    /\ value = 50
    /\ meters = Some(152400)

====
